---- MODULE Spec2Model ----
(***************************************************************************)
(* Model of the GitHub tools of the agent.                                 *)
(* core/client.ts: fetchGitHub (one HTTP request with a timeout,           *)
(* classified errors) and fetchWithRetry (exponential backoff around       *)
(* fetchGitHub).  core/auth.ts: the token helpers.  tools/*.ts: the four   *)
(* domain operations (search, getRepositoryInfo, listIssues, getUserInfo), *)
(* each a sequence of fetchGitHub calls; of their results the model keeps   *)
(* the counts, the item lists and the extension fields, not the display    *)
(* string.  cli.ts: the command line of the tools (parseArgs, main and its *)
(* handlers); the domain operation a handler awaits is seen from main as   *)
(* returning or throwing.  Command-line words are drawn from a fixed       *)
(* alphabet, and the string tests of parseArgs are tables over it.         *)
(*                                                                         *)
(* Messages are sequences of text pieces: the fixed texts of the code and  *)
(* the pieces interpolated into them.  The emoji that open the fixed texts *)
(* are left out of the pieces.  console.log / console.warn output          *)
(* (logRateLimit, the retry log line) changes no program state and is not  *)
(* modelled.                                                               *)
(***************************************************************************)
EXTENDS Integers, Sequences, FiniteSets, TLC

VARIABLES
    args,        \* arguments of the call under study: timeout, maxRetries
    server,      \* what the upstream server answers with: statuses, rate-limit headers
    fpc,         \* fetchGitHub: "idle" | "fetching" | "handleAPIError" | "readingBody" | "returned" | "thrown"
    timerArmed,  \* the setTimeout of fetchGitHub is pending
    elapsed,     \* time since the current fetchGitHub call started
    response,    \* the Response whose headers have arrived
    body,        \* the body read from the response by response.json()
    aborted,     \* controller.signal.aborted
    caught,      \* the exception caught by the catch block of fetchGitHub
    fresult,     \* outcome of the current fetchGitHub call
    requests,    \* number of HTTP requests issued (calls of fetch)
    rpc,         \* fetchWithRetry: "none" | "loop" | "await" | "sleep" | "returned" | "thrown"
    attempt,     \* loop variable of fetchWithRetry
    lastError,   \* local lastError of fetchWithRetry
    delays,      \* the delays slept by fetchWithRetry, in order
    history,     \* outcomes of the fetchGitHub calls made by fetchWithRetry, in order
    rresult,     \* outcome of fetchWithRetry
    token,       \* the token argument of the auth helper under study
    authOut,     \* the auth helper applied and its outcome
    call,        \* the domain operation under study and its arguments
    upstream,    \* what the upstream API holds for the base request
    opc,         \* domain operation: "idle" | "base" | "ext" | "returned" | "thrown"
    extIdx,      \* position, in the order of the code, of the extension being fetched
    out,         \* the extension fields of the response object being built
    issued,      \* the client requests issued by the operation, in order
    settled,     \* the outcomes of the settled client requests, in order
    oresult,     \* outcome of the domain operation
    hcall,       \* fetchGitHub options under study: method, body, token
    hreq,        \* the request fetchGitHub builds from them
    argv,        \* process.argv.slice(2) of the CLI run under study
    cpc,         \* CLI: "idle" | "start" | "awaiting" | "done" | "exited" | "crashed"
    parsed,      \* what parseArgs returned
    exitCode,    \* exit code of the process (-1 while it runs)
    printed,     \* the kinds of lines the CLI has printed
    invoked      \* the domain operation the CLI has invoked

avars == <<token, authOut>>
ovars == <<call, upstream, opc, extIdx, out, issued, settled, oresult>>
hvars == <<hcall, hreq>>
cvars == <<argv, cpc, parsed, exitCode, printed, invoked>>
xvars == <<avars, ovars, hvars, cvars>>

vars == <<args, server, fpc, timerArmed, elapsed, response, body, aborted, caught, fresult, requests,
          rpc, attempt, lastError, delays, history, rresult, xvars>>

fvars == <<fpc, timerArmed, elapsed, response, body, aborted, caught, fresult, requests>>
rvars == <<rpc, attempt, lastError, delays, history, rresult>>

----------------------------------------------------------------------------
(* Bounds *)

MaxRetries == 2          \* largest maxRetries argument under Spec
MaxBackoffRetries == 6   \* largest maxRetries argument under SpecBackoff
MinBackoffRetries == -1  \* smallest maxRetries argument under SpecBackoff
MaxTime == 3             \* the clock of one call runs from 0 to MaxTime
MaxTokenLen == 8         \* longest token tried
MaxPage == 3             \* most items on an upstream page of issues
MaxItems == 5            \* most items in an upstream search response
MaxHeaderTokenLen == 2   \* longest token tried when the request is built
MaxArgs == 4             \* most command-line arguments

Timeouts == {1, 2}       \* timeout arguments tried (in clock units)

----------------------------------------------------------------------------
(* Values *)

Min(a, b) == IF a <= b THEN a ELSE b

RECURSIVE Pow2(_)
Pow2(n) == IF n <= 0 THEN 1 ELSE 2 * Pow2(n - 1)

\* the value an uninitialised local reads as
Undefined == [name |-> "undefined", status |-> -1, message |-> <<>>]

NoHeader == "<null>"       \* headers.get(...) of a missing header
NoMessage == "<undefined>" \* errorData without a message field
NoResponse == [status |-> 0, statusText |-> "", remaining |-> NoHeader, reset |-> NoHeader]

AllStatuses == {200, 204, 400, 401, 403, 404, 418, 422, 429, 500, 502, 503}
BackoffStatuses == {200, 404, 503}

RemainingHeaders == {NoHeader, "0", "57"}
ResetHeaders == {NoHeader, "1760000000", "abc"}

\* the upstream server of Spec, and the one of SpecBackoff (few distinct answers)
FullServer == [statuses |-> AllStatuses, remaining |-> RemainingHeaders, reset |-> ResetHeaders]
BackoffServer == [statuses |-> BackoffStatuses, remaining |-> {NoHeader}, reset |-> {NoHeader}]
StatusTexts == {"Status Text"}

NoBody == [parsable |-> FALSE, message |-> "<unread>", errors |-> <<>>]
NoError == [name |-> "<none>", status |-> -1, message |-> <<>>]

\* bodies of an error response: unparsable, or JSON with or without message / errors
ErrorBodies ==
    {[parsable |-> FALSE, message |-> NoMessage, errors |-> <<>>]} \cup
    {[parsable |-> TRUE, message |-> NoMessage, errors |-> <<>>],
     [parsable |-> TRUE, message |-> "upstream message", errors |-> <<>>],
     [parsable |-> TRUE, message |-> "upstream message",
      errors |-> <<[field |-> "q", message |-> NoMessage, code |-> "missing"]>>]}

\* bodies of a 2xx response
JsonValues == {[type |-> "json", id |-> 1], [type |-> "json", id |-> 2]}
Null == [type |-> "null", id |-> 0]

\* exceptions of the transport that are not aborts
TransportErrors == {[name |-> "TypeError", status |-> -1, message |-> <<"fetch failed">>]}
BodyErrors == {[name |-> "SyntaxError", status |-> -1, message |-> <<"Unexpected token">>]}
AbortError == [name |-> "AbortError", status |-> -1, message |-> <<"This operation was aborted">>]

GitHubAPIError(message, status) ==
    [name |-> "GitHubAPIError", status |-> status, message |-> message]

Return(v) == [kind |-> "return", value |-> v, error |-> Undefined]
Throw(e) == [kind |-> "throw", value |-> Null, error |-> e]
NoResult == [kind |-> "none", value |-> Null, error |-> Undefined]

----------------------------------------------------------------------------
(* handleAPIError *)

RateLimitText == "GitHub rate limit exceeded. Resets at "
RateLimitTail == ". Try authenticating for higher limits."
ForbiddenText == "GitHub API forbidden. Check your permissions or token scopes."
NotFoundText == "Resource not found on GitHub. Check owner/repo names."
InvalidTokenText == "Invalid GitHub token. Please re-authenticate."
ServerErrorText == "GitHub server error. Please try again later."
BadRequestText == "Bad request: "
BadRequestTail == ". Please check your parameters."
ValidationText == "Validation failed: "

\* parseInt(reset) is a number
ParsesAsInt(reset) == reset \in {"1760000000"}

\* new Date(parseInt(reset) * 1000).toLocaleTimeString()
LocaleTime(reset) ==
    IF ParsesAsInt(reset) THEN "<local time of 1760000000>" ELSE "Invalid Date"

\* reset ? new Date(...).toLocaleTimeString() : 'soon'
ResetDate(reset) ==
    IF reset = NoHeader \/ reset = "" THEN "soon" ELSE LocaleTime(reset)

\* the message of the error body ignored: always response.statusText
UpstreamMessageStatusTextOnly(resp, errorBody) == resp.statusText

\* errorData?.message || response.statusText
UpstreamMessage(resp, errorBody) ==
    IF errorBody.parsable /\ errorBody.message # NoMessage /\ errorBody.message # ""
    THEN errorBody.message
    ELSE resp.statusText

\* e.message || e.code
ErrorDetail(e) ==
    <<e.field, ": ", IF e.message # NoMessage /\ e.message # "" THEN e.message ELSE e.code>>

\* remaining === 0: a header value is a string and never equals the number
IsRateLimitedAsNumber(resp) == FALSE

\* remaining === '0'
IsRateLimited(resp) == resp.remaining = "0"

\* the message handleAPIError builds, by status
ErrorMessage(resp, errorBody) ==
    LET message == UpstreamMessage(resp, errorBody) IN
    CASE resp.status = 400 -> <<BadRequestText, message, BadRequestTail>>
      [] resp.status = 401 -> <<InvalidTokenText>>
      [] resp.status = 403 ->
            IF IsRateLimited(resp)
            THEN <<RateLimitText, ResetDate(resp.reset), RateLimitTail>>
            ELSE <<ForbiddenText>>
      [] resp.status = 404 -> <<NotFoundText>>
      [] resp.status = 422 ->
            IF errorBody.parsable /\ Len(errorBody.errors) > 0
            THEN <<ValidationText, message, " (">> \o ErrorDetail(errorBody.errors[1]) \o <<")">>
            ELSE <<ValidationText, message>>
      [] resp.status \in {500, 502, 503} -> <<ServerErrorText>>
      [] OTHER -> <<message>>

\* handleAPIError without the try/catch around response.json()
handleAPIErrorUncaughtParse(resp, errorBody) ==
    IF errorBody.parsable
    THEN GitHubAPIError(ErrorMessage(resp, errorBody), resp.status)
    ELSE [name |-> "SyntaxError", status |-> -1, message |-> <<"Unexpected token">>]

handleAPIError(resp, errorBody) == GitHubAPIError(ErrorMessage(resp, errorBody), resp.status)

----------------------------------------------------------------------------
(* fetchGitHub *)

\* response.status === 200 in place of response.ok
OkOnly200(status) == status = 200

\* response.ok
Ok(status) == status >= 200 /\ status <= 299

\* the catch block testing for the name AbortSignal.timeout() rejects with
CatchErrorTimeoutName(error) ==
    IF error.name = "TimeoutError" THEN GitHubAPIError(<<"Request timeout">>, 408)
    ELSE IF error.name = "GitHubAPIError" THEN error
    ELSE GitHubAPIError(<<"Network error: ">> \o error.message, 0)

\* the catch block rethrowing what it does not recognise as it is
CatchErrorRethrowsOthers(error) ==
    IF error.name = "AbortError" THEN GitHubAPIError(<<"Request timeout">>, 408)
    ELSE error

\* the catch block of fetchGitHub: what it throws for a caught error
CatchError(error) ==
    IF error.name = "AbortError" THEN GitHubAPIError(<<"Request timeout">>, 408)
    ELSE IF error.name = "GitHubAPIError" THEN error
    ELSE GitHubAPIError(<<"Network error: ">> \o error.message, 0)

\* the call enters fetch(): the abort timer is armed and one request is issued
StartFetch ==
    /\ fpc' = "fetching"
    /\ timerArmed' = TRUE
    /\ elapsed' = 0
    /\ response' = NoResponse
    /\ body' = NoBody
    /\ aborted' = FALSE
    /\ caught' = NoError
    /\ fresult' = NoResult
    /\ requests' = requests + 1

InFlight == fpc \in {"fetching", "handleAPIError", "readingBody"}
FetchDone == fpc \in {"returned", "thrown"}

\* a direct call of fetchGitHub
CallFetchGitHub ==
    /\ rpc = "none"
    /\ fpc = "idle"
    /\ StartFetch
    /\ UNCHANGED <<args, server, rvars>>
    /\ UNCHANGED xvars

\* fetch() resolves: headers have arrived; clearTimeout; 204 returns at once
FetchResolves ==
    /\ fpc = "fetching"
    /\ \E st \in server.statuses, rem \in server.remaining, rs \in server.reset, tx \in StatusTexts :
          /\ response' = [status |-> st, statusText |-> tx, remaining |-> rem, reset |-> rs]
          /\ timerArmed' = FALSE
          /\ IF ~Ok(st)
             THEN fpc' = "handleAPIError" /\ fresult' = fresult
             ELSE IF st = 204
                  THEN fpc' = "returned" /\ fresult' = Return(Null)
                  ELSE fpc' = "readingBody" /\ fresult' = fresult
    /\ UNCHANGED <<args, server, elapsed, body, aborted, caught, requests, rvars>>
    /\ UNCHANGED xvars

\* fetch() rejects with a transport error that is not an abort
FetchRejects ==
    /\ fpc = "fetching"
    /\ \E e \in TransportErrors :
          /\ fpc' = "thrown"
          /\ caught' = e
          /\ fresult' = Throw(CatchError(e))
    /\ timerArmed' = FALSE
    /\ UNCHANGED <<args, server, elapsed, response, body, aborted, requests, rvars>>
    /\ UNCHANGED xvars

\* the timer fires: controller.abort() rejects the pending transport call
TimerFires ==
    /\ timerArmed
    /\ elapsed >= args.timeout
    /\ InFlight
    /\ aborted' = TRUE
    /\ fpc' = "thrown"
    /\ caught' = AbortError
    /\ fresult' = Throw(CatchError(AbortError))
    /\ timerArmed' = FALSE
    /\ UNCHANGED <<args, server, elapsed, response, body, requests, rvars>>
    /\ UNCHANGED xvars

\* handleAPIError: the error body is read (or fails to parse) and the
\* classified error is thrown, then rethrown by the catch block
ErrorBodyRead ==
    /\ fpc = "handleAPIError"
    /\ \E b \in ErrorBodies :
          /\ body' = b
          /\ fpc' = "thrown"
          /\ caught' = handleAPIError(response, b)
          /\ fresult' = Throw(CatchError(handleAPIError(response, b)))
    /\ timerArmed' = FALSE
    /\ UNCHANGED <<args, server, elapsed, response, aborted, requests, rvars>>
    /\ UNCHANGED xvars

\* response.json() of a 2xx response resolves
BodyParsed ==
    /\ fpc = "readingBody"
    /\ \E data \in JsonValues :
          /\ fpc' = "returned"
          /\ fresult' = Return(data)
    /\ UNCHANGED <<args, server, timerArmed, elapsed, response, body, aborted, caught, requests, rvars>>
    /\ UNCHANGED xvars

\* response.json() of a 2xx response rejects (invalid JSON, broken stream)
BodyFails ==
    /\ fpc = "readingBody"
    /\ \E e \in BodyErrors :
          /\ fpc' = "thrown"
          /\ caught' = e
          /\ fresult' = Throw(CatchError(e))
    /\ timerArmed' = FALSE
    /\ UNCHANGED <<args, server, elapsed, response, body, aborted, requests, rvars>>
    /\ UNCHANGED xvars

\* time passes while the call is pending; a due timer fires before more time passes
Tick ==
    /\ InFlight
    /\ elapsed < MaxTime
    /\ ~(timerArmed /\ elapsed >= args.timeout)
    /\ elapsed' = elapsed + 1
    /\ UNCHANGED <<args, server, fpc, timerArmed, response, body, aborted, caught, fresult, requests, rvars>>
    /\ UNCHANGED xvars

----------------------------------------------------------------------------
(* fetchWithRetry *)

\* only authentication failures are final
IsClientErrorAuthOnly(error) ==
    error.name = "GitHubAPIError" /\ error.status \in {401, 403}

\* 403 exempted from the client errors, like 429
IsClientErrorExcept403(error) ==
    error.name = "GitHubAPIError" /\ error.status >= 400 /\ error.status < 500
        /\ error.status # 429 /\ error.status # 403

\* error.status >= 400 && error.status < 500 && error.status !== 429
IsClientError(error) ==
    error.name = "GitHubAPIError" /\ error.status >= 400 /\ error.status < 500 /\ error.status # 429

\* the exponent with its sign flipped: Math.pow(2, 1 - attempt), rounded down
BackoffDelayShrinking(n) == Min(1000 \div Pow2(n - 1), 10000)

\* the cap left out
BackoffDelayNoCap(n) == 1000 * Pow2(n - 1)

\* Math.min(1000 * Math.pow(2, attempt - 1), 10000)
BackoffDelay(n) == Min(1000 * Pow2(n - 1), 10000)

\* the body run once before the test, as in a do-while loop
LoopTestAfterFirst(n, max) == n = 1 \/ n <= max

\* the loop test attempt <= maxRetries
LoopTest(n, max) == n <= max

\* attempt === maxRetries
IsLastAttempt(n, max) == n = max

\* the first error kept: lastError = lastError ?? error
RecordFirstError(last, error) == IF last = Undefined THEN error ELSE last

\* lastError = error
RecordError(last, error) == error

\* fetchWithRetry is called: let attempt = 1
CallFetchWithRetry ==
    /\ rpc = "none"
    /\ fpc = "idle"
    /\ rpc' = "loop"
    /\ attempt' = 1
    /\ UNCHANGED <<args, server, fvars, lastError, delays, history, rresult>>
    /\ UNCHANGED xvars

\* the loop test attempt <= maxRetries: call fetchGitHub, or leave the loop
\* and throw lastError
RetryLoop ==
    /\ rpc = "loop"
    /\ IF LoopTest(attempt, args.maxRetries)
       THEN /\ StartFetch
            /\ rpc' = "await"
            /\ UNCHANGED <<rresult>>
       ELSE /\ rpc' = "thrown"
            /\ rresult' = Throw(lastError)
            /\ UNCHANGED fvars
    /\ UNCHANGED <<args, server, attempt, lastError, delays, history>>
    /\ UNCHANGED xvars

\* the awaited fetchGitHub call settles: return its value, or run the catch
\* block; the frame of the finished call (its response, its clock) is gone
RetrySettle ==
    /\ rpc = "await"
    /\ fpc \in {"returned", "thrown"}
    /\ history' = Append(history, fresult)
    /\ fpc' = "idle"
    /\ elapsed' = 0
    /\ response' = NoResponse
    /\ body' = NoBody
    /\ aborted' = FALSE
    /\ caught' = NoError
    /\ IF fresult.kind = "return"
       THEN /\ rpc' = "returned"
            /\ rresult' = fresult
            /\ UNCHANGED <<lastError, delays>>
       ELSE LET error == fresult.error
                last == RecordError(lastError, error) IN
            /\ lastError' = last
            /\ IF IsClientError(error)
               THEN rpc' = "thrown" /\ rresult' = Throw(error) /\ delays' = delays
               ELSE IF IsLastAttempt(attempt, args.maxRetries)
                    THEN rpc' = "thrown" /\ rresult' = Throw(last) /\ delays' = delays
                    ELSE /\ rpc' = "sleep"
                         /\ delays' = Append(delays, BackoffDelay(attempt))
                         /\ rresult' = rresult
    /\ UNCHANGED <<args, server, timerArmed, fresult, requests, attempt>>
    /\ UNCHANGED xvars

\* sleep(delay) resolves: attempt++
SleepDone ==
    /\ rpc = "sleep"
    /\ rpc' = "loop"
    /\ attempt' = attempt + 1
    /\ UNCHANGED <<args, server, fvars, lastError, delays, history, rresult>>
    /\ UNCHANGED xvars

----------------------------------------------------------------------------
(* Auth helpers: tokens are strings, modelled as sequences of characters *)

TokenChars == {" ", "g", "p"}
Whitespace == {" "}

Absent == [present |-> FALSE, chars |-> <<>>]      \* undefined
Str(cs) == [present |-> TRUE, chars |-> cs]

Tokens == {Absent} \cup {Str(cs) : cs \in UNION {[1..n -> TokenChars] : n \in 0..MaxTokenLen}}

RECURSIVE TrimStart(_)
TrimStart(cs) ==
    IF cs # <<>> /\ Head(cs) \in Whitespace THEN TrimStart(Tail(cs)) ELSE cs

RECURSIVE TrimEnd(_)
TrimEnd(cs) ==
    IF cs # <<>> /\ cs[Len(cs)] \in Whitespace THEN TrimEnd(SubSeq(cs, 1, Len(cs) - 1)) ELSE cs

\* String.prototype.trim
Trim(cs) == TrimEnd(TrimStart(cs))

\* a string used as a condition: undefined and '' are falsy
Truthy(t) == t.present /\ t.chars # <<>>

AuthRequiredText == "GitHub authentication required. Please login with GitHub to use this feature."
Redaction == <<"*", "*", "*">>
MaskPrefixLen == 7

AuthReturn(fn, t) == [fn |-> fn, kind |-> "return", value |-> t, message |-> <<>>]
AuthThrow(fn, text) == [fn |-> fn, kind |-> "throw", value |-> Absent, message |-> <<text>>]
AuthIdle == [fn |-> "none", kind |-> "none", value |-> Absent, message |-> <<>>]

\* the trimmed token returned: token?.trim() || undefined
getOptionalTokenTrimmed(t) ==
    IF Truthy(t) /\ Trim(t.chars) # <<>> THEN Str(Trim(t.chars)) ELSE Absent

\* token && token.trim() !== '' ? token : undefined
getOptionalToken(t) ==
    IF Truthy(t) /\ Trim(t.chars) # <<>> THEN t ELSE Absent

\* the test without the trim: if (!token) throw
requireAuthNoTrim(t) ==
    IF ~Truthy(t)
    THEN AuthThrow("requireAuth", AuthRequiredText)
    ELSE AuthReturn("requireAuth", t)

\* if (!token || token.trim() === '') throw new Error(...); return token
requireAuth(t) ==
    IF ~Truthy(t) \/ Trim(t.chars) = <<>>
    THEN AuthThrow("requireAuth", AuthRequiredText)
    ELSE AuthReturn("requireAuth", t)

\* the test token.length < 7
maskTokenStrictlyShorter(t) ==
    IF Len(t.chars) < MaskPrefixLen THEN Str(Redaction)
    ELSE Str(SubSeq(t.chars, 1, MaskPrefixLen) \o Redaction)

\* if (token.length <= 7) return '***'; return `${token.slice(0, 7)}***`
maskToken(t) ==
    IF Len(t.chars) <= MaskPrefixLen THEN Str(Redaction)
    ELSE Str(SubSeq(t.chars, 1, MaskPrefixLen) \o Redaction)

CallGetOptionalToken ==
    /\ authOut.fn = "none"
    /\ authOut' = AuthReturn("getOptionalToken", getOptionalToken(token))
    /\ UNCHANGED <<args, server, fvars, rvars, token, ovars, hvars, cvars>>

CallRequireAuth ==
    /\ authOut.fn = "none"
    /\ authOut' = requireAuth(token)
    /\ UNCHANGED <<args, server, fvars, rvars, token, ovars, hvars, cvars>>

\* maskToken takes a string
CallMaskToken ==
    /\ authOut.fn = "none"
    /\ token.present
    /\ authOut' = AuthReturn("maskToken", maskToken(token))
    /\ UNCHANGED <<args, server, fvars, rvars, token, ovars, hvars, cvars>>

----------------------------------------------------------------------------
(* Domain operations *)

OpsServer == [statuses |-> {200, 204, 404, 500}, remaining |-> {NoHeader}, reset |-> {NoHeader}]

NoLabels == "<undefined>"
LabelsArgs == {NoLabels, "", "bug,ui"}
SearchTypes == {"repositories", "users", "code"}
TypeArgs == SearchTypes \cup {"gists"}
TotalCounts == {0, 5, 1208}

\* upstream pages of issues: items numbered by position, some with the pull_request field
Pages ==
    UNION {{[i \in 1..n |-> [number |-> i, pull_request |-> marks[i]]] : marks \in [1..n -> BOOLEAN]}
           : n \in 0..MaxPage}

\* upstream search responses: total_count and the items of this response
SearchResponses ==
    {[total_count |-> t, items |-> [i \in 1..n |-> [id |-> i]]] : t \in TotalCounts, n \in 0..MaxItems}

NoUpstream == [page |-> <<>>, search |-> [total_count |-> 0, items |-> <<>>]]

RepositoryExtensions == <<"branches", "release", "commits">>
UserExtensions == <<"repos", "starred">>

\* the order in which the code looks at the extensions
ExtOrder(op) ==
    CASE op = "getRepositoryInfo" -> RepositoryExtensions
      [] op = "getUserInfo" -> UserExtensions
      [] OTHER -> <<>>

SeqRange(seq) == {seq[i] : i \in 1..Len(seq)}

OpsCalls ==
    {[op |-> "listIssues", include |-> {}, labels |-> l, type |-> "none"] : l \in LabelsArgs} \cup
    {[op |-> "search", include |-> {}, labels |-> NoLabels, type |-> t] : t \in TypeArgs} \cup
    {[op |-> "getRepositoryInfo", include |-> inc, labels |-> NoLabels, type |-> "none"]
        : inc \in SUBSET SeqRange(RepositoryExtensions)} \cup
    {[op |-> "getUserInfo", include |-> inc, labels |-> NoLabels, type |-> "none"]
        : inc \in SUBSET SeqRange(UserExtensions)}

NoCall == [op |-> "none", include |-> {}, labels |-> NoLabels, type |-> "none"]

\* the prefix each operation puts before the message of a caught error
OpPrefix(op) ==
    CASE op = "search" -> "GitHub search failed: "
      [] op = "getRepositoryInfo" -> "Failed to get repository info: "
      [] op = "listIssues" -> "Failed to list issues: "
      [] op = "getUserInfo" -> "Failed to get user info: "

NullDerefText == "Cannot read properties of null"
LabelsJoinText == "labels.join is not a function"
InvalidTypeText == "Invalid search type: "

\* the response object built with every extension field an empty list
NoFieldsEmptyLists == [branches |-> "[]", latest_release |-> "[]", recent_commits |-> "[]",
                       repos |-> "[]", starred |-> "[]"]

\* the response object right after the base fields are set: no extension field
NoFields == [branches |-> "absent", latest_release |-> "absent", recent_commits |-> "absent",
             repos |-> "absent", starred |-> "absent"]

\* the field of the response object an extension is stored in
ExtField(e) ==
    CASE e = "branches" -> "branches"
      [] e = "release" -> "latest_release"
      [] e = "commits" -> "recent_commits"
      [] e = "repos" -> "repos"
      [] e = "starred" -> "starred"

\* every catch block storing an empty list
ExtFallbackAlwaysList(e) == "[]"

\* the value the catch block of an extension stores
ExtFallback(e) == IF e = "release" THEN "null" ELSE "[]"

\* the value an extension is resolved to: the mapped data of a successful
\* fetch (document 1 is a non-empty list, document 2 an empty one), or the
\* fallback when the fetch throws or the mapping of a null body throws
ExtValue(e, fres) ==
    IF fres.kind = "throw" \/ fres.value = Null THEN ExtFallback(e)
    ELSE IF e = "release" \/ fres.value.id = 1 THEN "data"
    ELSE "[]"

\* every extension of the operation fetched, requested or not
NextExtIgnoresInclude(op, include, from) ==
    IF from < Len(ExtOrder(op)) THEN from + 1 ELSE 0

\* the next extension of the code's order, after position from, that include names (0: none)
NextExt(op, include, from) ==
    LET later == {i \in (from + 1)..Len(ExtOrder(op)) : ExtOrder(op)[i] \in include}
    IN IF later = {} THEN 0 ELSE CHOOSE i \in later : \A j \in later : i <= j

\* the filter dropped: every item of the page is kept
OnlyIssuesUnfiltered(page) == page

\* issues.filter(issue => !issue.pull_request)
OnlyIssues(page) == SelectSeq(page, LAMBDA issue : ~issue.pull_request)

\* onlyIssues.map(issue => ({number: ..., is_pull_request: false}))
TransformIssues(issues) ==
    [i \in 1..Len(issues) |-> [number |-> issues[i].number, is_pull_request |-> FALSE]]

\* showing: response.total_count in place of results.length
ShowingFromTotal(resp, results) == resp.total_count

\* showing: results.length
Showing(resp, results) == Len(results)

OpReturn(fields, total, totalCount, showing, items) ==
    [kind |-> "return", message |-> <<>>, fields |-> fields, total |-> total,
     total_count |-> totalCount, showing |-> showing, items |-> items]
OpThrow(message) ==
    [kind |-> "throw", message |-> message, fields |-> NoFields, total |-> 0,
     total_count |-> 0, showing |-> 0, items |-> <<>>]
NoOpResult ==
    [kind |-> "none", message |-> <<>>, fields |-> NoFields, total |-> 0,
     total_count |-> 0, showing |-> 0, items |-> <<>>]

\* the error of a base request rethrown without the prefix of the operation
WrapErrorBare(op, message) == OpThrow(message)

\* throw new Error(`<prefix>${error.message}`)
WrapError(op, message) == OpThrow(<<OpPrefix(op)>> \o message)

\* what the log keeps of a settled client request
Outcome(fres) == [kind |-> fres.kind, isNull |-> (fres.kind = "return" /\ fres.value = Null),
                  error |-> fres.error]

\* the client call of an operation has settled and its frame is gone
ResetFrame ==
    /\ fpc' = "idle"
    /\ timerArmed' = FALSE
    /\ elapsed' = 0
    /\ response' = NoResponse
    /\ body' = NoBody
    /\ aborted' = FALSE
    /\ caught' = NoError
    /\ fresult' = NoResult
    /\ requests' = requests

\* only a null body sent to the outer catch
BaseFailsOnNullOnly(fres) == fres.kind = "return" /\ fres.value = Null

\* the base request sends control to the outer catch: the awaited client
\* call throws, or the first field read of a null body throws
BaseFails(fres) == fres.kind = "throw" \/ fres.value = Null

\* search and listIssues after the base request returned data: the result,
\* or the error thrown while it is built
BaseResult(c, up) ==
    CASE c.op = "search" ->
            IF c.type \notin SearchTypes
            THEN WrapError(c.op, <<InvalidTypeText, c.type>>)
            ELSE LET results == up.search.items
                 IN OpReturn(NoFields, 0, up.search.total_count, Showing(up.search, results), results)
      [] c.op = "listIssues" ->
            LET issues == TransformIssues(OnlyIssues(up.page))
            IN IF c.labels # NoLabels /\ c.labels # ""
               THEN WrapError(c.op, <<LabelsJoinText>>)
               ELSE OpReturn(NoFields, Len(issues), 0, 0, issues)
      [] OTHER -> OpReturn(NoFields, 0, 0, 0, <<>>)

\* the operation is called: the base request is issued
OpCall ==
    /\ opc = "idle"
    /\ call.op # "none"
    /\ rpc = "none"
    /\ fpc = "idle"
    /\ StartFetch
    /\ opc' = "base"
    /\ issued' = <<[endpoint |-> "base", labels |-> IF call.labels = "" THEN NoLabels ELSE call.labels]>>
    /\ UNCHANGED <<args, server, rvars, avars, hvars, cvars, call, upstream, extIdx, out, settled, oresult>>

\* the operation goes on after a settled request: the next requested
\* extension is fetched, or the response object is returned
Advance(from, fields) ==
    LET n == NextExt(call.op, call.include, from) IN
    IF n # 0
    THEN /\ StartFetch
         /\ opc' = "ext"
         /\ extIdx' = n
         /\ issued' = Append(issued, [endpoint |-> ExtOrder(call.op)[n], labels |-> NoLabels])
         /\ oresult' = oresult
    ELSE /\ ResetFrame
         /\ opc' = "returned"
         /\ extIdx' = extIdx
         /\ issued' = issued
         /\ oresult' = OpReturn(fields, 0, 0, 0, <<>>)

\* the base request settles: its error is wrapped and rethrown; otherwise
\* the base response is built and the operation goes on
OpBaseSettle ==
    /\ opc = "base"
    /\ FetchDone
    /\ settled' = Append(settled, Outcome(fresult))
    /\ out' = out
    /\ IF BaseFails(fresult) \/ call.op \in {"search", "listIssues"}
       THEN /\ ResetFrame
            /\ extIdx' = extIdx
            /\ issued' = issued
            /\ oresult' = IF ~BaseFails(fresult) THEN BaseResult(call, upstream)
                           ELSE IF fresult.kind = "throw" THEN WrapError(call.op, fresult.error.message)
                           ELSE WrapError(call.op, <<NullDerefText>>)
            /\ opc' = IF oresult'.kind = "return" THEN "returned" ELSE "thrown"
       ELSE Advance(0, out)
    /\ UNCHANGED <<args, server, rvars, avars, hvars, cvars, call, upstream>>

\* an extension request settles: its field is set to the data or to the
\* fallback, and the operation goes on
OpExtSettle ==
    /\ opc = "ext"
    /\ FetchDone
    /\ settled' = Append(settled, Outcome(fresult))
    /\ LET e == ExtOrder(call.op)[extIdx]
       IN /\ out' = [out EXCEPT ![ExtField(e)] = ExtValue(e, fresult)]
          /\ Advance(extIdx, out')
    /\ UNCHANGED <<args, server, rvars, avars, hvars, cvars, call, upstream>>

----------------------------------------------------------------------------
(* fetchGitHub: the request built before fetch() is called *)

NoMethod == "<undefined>"
MethodArgs == {NoMethod, "GET", "POST", "PUT", "PATCH", "DELETE"}

\* body arguments, written as their JavaScript source
NoBodyArg == "undefined"
BodyArgs == {NoBodyArg, "''", "0", "{...}"}

\* a body used as a condition
BodyTruthy(b) == b \notin {NoBodyArg, "''", "0"}

HeaderTokens == {Absent} \cup {Str(cs) : cs \in UNION {[1..n -> TokenChars] : n \in 0..MaxHeaderTokenLen}}

NoHeaderCall == [method |-> NoMethod, body |-> NoBodyArg, token |-> Absent]

FixedHeaders ==
    {[name |-> "Accept", value |-> <<"application/vnd.github+json">>],
     [name |-> "X-GitHub-Api-Version", value |-> <<"2022-11-28">>],
     [name |-> "User-Agent", value |-> <<"Deus-Ex-Machina-Agent/1.0">>]}

\* const { method = 'GET', ... } = options
Method(c) == IF c.method = NoMethod THEN "GET" ELSE c.method

\* Content-Type added whenever there is a body
BuildHeadersContentTypeForAnyMethod(c) ==
    FixedHeaders
    \cup (IF Truthy(c.token)
          THEN {[name |-> "Authorization", value |-> <<"Bearer ">> \o c.token.chars]} ELSE {})
    \cup (IF BodyTruthy(c.body)
          THEN {[name |-> "Content-Type", value |-> <<"application/json">>]} ELSE {})

\* the headers object: the fixed headers, Authorization if (token),
\* Content-Type if (body && method !== 'GET')
BuildHeaders(c) ==
    FixedHeaders
    \cup (IF Truthy(c.token)
          THEN {[name |-> "Authorization", value |-> <<"Bearer ">> \o c.token.chars]} ELSE {})
    \cup (IF BodyTruthy(c.body) /\ Method(c) # "GET"
          THEN {[name |-> "Content-Type", value |-> <<"application/json">>]} ELSE {})

\* the init object handed to fetch(): body ? JSON.stringify(body) : undefined
BuildRequest(c) ==
    [built |-> TRUE, method |-> Method(c), headers |-> BuildHeaders(c), hasBody |-> BodyTruthy(c.body)]

NoRequest == [built |-> FALSE, method |-> "GET", headers |-> {}, hasBody |-> FALSE]

\* fetchGitHub builds its request
CallBuildRequest ==
    /\ ~hreq.built
    /\ hreq' = BuildRequest(hcall)
    /\ UNCHANGED <<args, server, fvars, rvars, avars, ovars, hcall, cvars>>

----------------------------------------------------------------------------
(* The command line: parseArgs, main and the handlers *)

NoWord == "<undefined>"
CommandWords == {"search", "user-info", "bogus", "help"}
FlagWords == {"--help", "--include", "--_args"}
ValueWords == {"x", "a,b", "0"}
ArgVectors == UNION {[1..n -> CommandWords \cup FlagWords \cup ValueWords] : n \in 0..MaxArgs}

\* word.startsWith('--')
StartsWithDashes(w) == w \in FlagWords

\* word.substring(2) of a flag
FlagKey(w) ==
    CASE w = "--help" -> "help"
      [] w = "--include" -> "include"
      [] w = "--_args" -> "_args"

\* word.includes(',')
HasComma(w) == w \in {"a,b"}

\* word.split(',')
Split(w) == IF w = "a,b" THEN <<"a", "b">> ELSE <<w>>

\* !isNaN(Number(word))
IsNumeric(w) == w \in {"0"}

\* the characters of a word
Chars(w) ==
    CASE w = "x" -> <<"x">>
      [] w = "0" -> <<"0">>
      [] w = "a,b" -> <<"a", ",", "b">>
      [] w = "help" -> <<"h", "e", "l", "p">>
      [] w = "bogus" -> <<"b", "o", "g", "u", "s">>
      [] w = "search" -> <<"s", "e", "a", "r", "c", "h">>
      [] w = "user-info" -> <<"u", "s", "e", "r", "-", "i", "n", "f", "o">>
      [] OTHER -> <<>>

\* a word used as a condition
WordTruthy(w) == w # NoWord /\ w # ""

\* the values parseArgs stores in params
UndefinedValue == [kind |-> "undefined", items |-> <<>>]
TrueValue == [kind |-> "true", items |-> <<>>]
StringValue(w) == [kind |-> "string", items |-> <<w>>]
NumberValue(w) == [kind |-> "number", items |-> <<w>>]
ListValue(ws) == [kind |-> "list", items |-> ws]

\* a stored value used as a condition
ValueTruthy(v) ==
    CASE v.kind = "undefined" -> FALSE
      [] v.kind = "number" -> v.items # <<"0">>
      [] OTHER -> TRUE

ParamKeys == {"help", "include", "_args", "_command"}
NoParams == [k \in ParamKeys |-> UndefinedValue]

\* the value a --flag gets from the word after it
FlagValue(value) ==
    IF WordTruthy(value) /\ HasComma(value) THEN ListValue(Split(value))
    ELSE IF WordTruthy(value) /\ ~StartsWithDashes(value)
         THEN (IF IsNumeric(value) THEN NumberValue(value) ELSE StringValue(value))
         ELSE TrueValue

\* i++ after a flag: only the branch of a plain value skips the next word
FlagSkip(value) ==
    IF WordTruthy(value) /\ HasComma(value) THEN 0
    ELSE IF WordTruthy(value) /\ ~StartsWithDashes(value) THEN 1
    ELSE 0

\* the for loop of parseArgs from index i on (argv[1] is args[0] of the code)
RECURSIVE ParseLoop(_, _, _, _)
ParseLoop(av, i, command, params) ==
    IF i > Len(av) THEN [command |-> command, params |-> params, threw |-> FALSE]
    ELSE IF StartsWithDashes(av[i])
    THEN LET value == IF i + 1 <= Len(av) THEN av[i + 1] ELSE NoWord
         IN ParseLoop(av, i + 1 + FlagSkip(value), command,
                      [params EXCEPT ![FlagKey(av[i])] = FlagValue(value)])
    ELSE IF ~WordTruthy(command)
    THEN ParseLoop(av, i + 1, command, [params EXCEPT !["_command"] = StringValue(av[i])])
    ELSE IF ~ValueTruthy(params["_args"])
    THEN ParseLoop(av, i + 1, command, [params EXCEPT !["_args"] = ListValue(<<av[i]>>)])
    ELSE IF params["_args"].kind = "list"
    THEN ParseLoop(av, i + 1, command,
                   [params EXCEPT !["_args"] = ListValue(Append(params["_args"].items, av[i]))])
    ELSE \* params._args.push is not a function
         [command |-> command, params |-> params, threw |-> TRUE]

\* parseArgs: { command: command || params._command, params }
parseArgs(av) ==
    LET command == IF Len(av) >= 1 THEN av[1] ELSE NoWord
        r == ParseLoop(av, 2, command, NoParams)
    IN [command |-> IF WordTruthy(command) THEN command
                    ELSE IF r.params["_command"].kind = "string" THEN r.params["_command"].items[1]
                    ELSE NoWord,
        params |-> r.params,
        threw |-> r.threw]

NoParse == [command |-> NoWord, params |-> NoParams, threw |-> FALSE]

\* !command || params.help || command === 'help'
WantsHelp(p) == ~WordTruthy(p.command) \/ ValueTruthy(p.params["help"]) \/ p.command = "help"

\* the cases of the switch in main and the positional arguments each handler requires
Handlers == {"search", "repo-info", "issues", "user-info"}
Required(command) == IF command = "user-info" THEN 1 ELSE 2

\* const [a, b] = params._args || [] throws for a value that is not iterable
DestructureThrows(v) == ValueTruthy(v) /\ v.kind \in {"true", "number"}

\* the elements const [a, b] = params._args || [] reads
Destructure(v) ==
    IF ~ValueTruthy(v) THEN <<>>
    ELSE IF v.kind = "list" THEN v.items
    ELSE IF v.kind = "string" THEN Chars(v.items[1])
    ELSE <<>>

\* main up to its first await, or to the end of the process: parseArgs
\* (outside the try), the help test, the switch, the handler's usage test
Main ==
    /\ cpc = "start"
    /\ LET p == parseArgs(argv) IN
       /\ parsed' = p
       /\ IF p.threw
          THEN \* the promise of main is rejected and nothing handles it
               /\ cpc' = "crashed"
               /\ exitCode' = 1
               /\ printed' = printed
               /\ invoked' = invoked
          ELSE IF WantsHelp(p)
          THEN /\ cpc' = "exited"
               /\ exitCode' = 0
               /\ printed' = {"usage"}
               /\ invoked' = invoked
          ELSE IF p.command \notin Handlers
          THEN /\ cpc' = "exited"
               /\ exitCode' = 1
               /\ printed' = {"banner", "unknown command"}
               /\ invoked' = invoked
          ELSE IF DestructureThrows(p.params["_args"])
          THEN /\ cpc' = "exited"
               /\ exitCode' = 1
               /\ printed' = {"banner", "command failed"}
               /\ invoked' = invoked
          ELSE IF Len(Destructure(p.params["_args"])) < Required(p.command)
          THEN /\ cpc' = "exited"
               /\ exitCode' = 1
               /\ printed' = {"banner", "handler usage"}
               /\ invoked' = invoked
          ELSE /\ cpc' = "awaiting"
               /\ exitCode' = exitCode
               /\ printed' = {"banner", "announcement"}
               /\ invoked' = p.command
    /\ UNCHANGED <<args, server, fvars, rvars, avars, ovars, hvars, argv>>

\* the awaited domain operation returns: the result and the success line
\* are printed and the process ends
OperationReturns ==
    /\ cpc = "awaiting"
    /\ cpc' = "done"
    /\ exitCode' = 0
    /\ printed' = printed \cup {"result", "success"}
    /\ UNCHANGED <<args, server, fvars, rvars, avars, ovars, hvars, argv, parsed, invoked>>

\* the awaited domain operation throws: the catch of main prints the
\* message and exits with 1
OperationThrows ==
    /\ cpc = "awaiting"
    /\ cpc' = "exited"
    /\ exitCode' = 1
    /\ printed' = printed \cup {"command failed"}
    /\ UNCHANGED <<args, server, fvars, rvars, avars, ovars, hvars, argv, parsed, invoked>>

----------------------------------------------------------------------------
(* Specifications *)

InitState ==
    /\ fpc = "idle"
    /\ timerArmed = FALSE
    /\ elapsed = 0
    /\ response = NoResponse
    /\ body = NoBody
    /\ aborted = FALSE
    /\ caught = NoError
    /\ fresult = NoResult
    /\ requests = 0
    /\ rpc = "none"
    /\ attempt = 0
    /\ lastError = Undefined
    /\ delays = <<>>
    /\ history = <<>>
    /\ rresult = NoResult

\* no auth helper under study
AuthQuiet ==
    /\ token = Absent
    /\ authOut = AuthIdle

\* no request building and no CLI run under study
OthersQuiet ==
    /\ hcall = NoHeaderCall
    /\ hreq = NoRequest
    /\ argv = <<>>
    /\ cpc = "idle"
    /\ parsed = NoParse
    /\ exitCode = -1
    /\ printed = {}
    /\ invoked = "none"

\* no domain operation under study
OpsQuiet ==
    /\ call = NoCall
    /\ upstream = NoUpstream
    /\ opc = "idle"
    /\ extIdx = 0
    /\ out = NoFields
    /\ issued = <<>>
    /\ settled = <<>>
    /\ oresult = NoOpResult

Init ==
    /\ args \in [timeout : Timeouts, maxRetries : 0..MaxRetries]
    /\ server = FullServer
    /\ InitState
    /\ AuthQuiet
    /\ OpsQuiet
    /\ OthersQuiet

\* long retry runs against a server with few distinct answers
InitBackoff ==
    /\ args \in [timeout : Timeouts, maxRetries : MinBackoffRetries..MaxBackoffRetries]
    /\ server = BackoffServer
    /\ InitState
    /\ AuthQuiet
    /\ OpsQuiet
    /\ OthersQuiet

\* an auth helper is applied to a token
InitAuth ==
    /\ args = [timeout |-> 1, maxRetries |-> 0]
    /\ server = BackoffServer
    /\ InitState
    /\ token \in Tokens
    /\ authOut = AuthIdle
    /\ OpsQuiet
    /\ OthersQuiet

\* a domain operation is called with the default timeout
InitOps ==
    /\ args = [timeout |-> 2, maxRetries |-> 0]
    /\ server = OpsServer
    /\ InitState
    /\ AuthQuiet
    /\ call \in OpsCalls
    /\ upstream \in {[page |-> IF call.op = "listIssues" THEN pg ELSE <<>>,
                       search |-> IF call.op = "search" THEN sr ELSE NoUpstream.search]
                         : pg \in Pages, sr \in SearchResponses}
    /\ opc = "idle"
    /\ extIdx = 0
    /\ out = NoFields
    /\ issued = <<>>
    /\ settled = <<>>
    /\ oresult = NoOpResult
    /\ OthersQuiet

Next ==
    \/ CallFetchGitHub
    \/ FetchResolves
    \/ FetchRejects
    \/ TimerFires
    \/ ErrorBodyRead
    \/ BodyParsed
    \/ BodyFails
    \/ Tick
    \/ CallFetchWithRetry
    \/ RetryLoop
    \/ RetrySettle
    \/ SleepDone

Spec == Init /\ [][Next]_vars

SpecBackoff == InitBackoff /\ [][Next]_vars

NextAuth ==
    \/ CallGetOptionalToken
    \/ CallRequireAuth
    \/ CallMaskToken

SpecAuth == InitAuth /\ [][NextAuth]_vars

NextOps ==
    \/ OpCall
    \/ OpBaseSettle
    \/ OpExtSettle
    \/ FetchResolves
    \/ FetchRejects
    \/ TimerFires
    \/ ErrorBodyRead
    \/ BodyParsed
    \/ BodyFails
    \/ Tick

SpecOps == InitOps /\ [][NextOps]_vars

\* fetchGitHub is called with some method, body and token
InitHeaders ==
    /\ args = [timeout |-> 2, maxRetries |-> 0]
    /\ server = OpsServer
    /\ InitState
    /\ AuthQuiet
    /\ OpsQuiet
    /\ hcall \in [method : MethodArgs, body : BodyArgs, token : HeaderTokens]
    /\ hreq = NoRequest
    /\ argv = <<>>
    /\ cpc = "idle"
    /\ parsed = NoParse
    /\ exitCode = -1
    /\ printed = {}
    /\ invoked = "none"

SpecHeaders == InitHeaders /\ [][CallBuildRequest]_vars

\* the CLI is started with some argument vector
InitCli ==
    /\ args = [timeout |-> 2, maxRetries |-> 0]
    /\ server = OpsServer
    /\ InitState
    /\ AuthQuiet
    /\ OpsQuiet
    /\ hcall = NoHeaderCall
    /\ hreq = NoRequest
    /\ argv \in ArgVectors
    /\ cpc = "start"
    /\ parsed = NoParse
    /\ exitCode = -1
    /\ printed = {}
    /\ invoked = "none"

NextCli ==
    \/ Main
    \/ OperationReturns
    \/ OperationThrows

SpecCli == InitCli /\ [][NextCli]_vars

TypeOK ==
    /\ fpc \in {"idle", "fetching", "handleAPIError", "readingBody", "returned", "thrown"}
    /\ rpc \in {"none", "loop", "await", "sleep", "returned", "thrown"}
    /\ elapsed \in 0..MaxTime
    /\ timerArmed \in BOOLEAN
    /\ requests \in Nat

----------------------------------------------------------------------------
(* Properties of fetchWithRetry *)

RetryDone == rpc \in {"returned", "thrown"}

\* the i-th fetchGitHub call of fetchWithRetry failed with this status
FailedWith(i, status) ==
    history[i].kind = "throw" /\ history[i].error.status = status

RetryableStatuses == {500, 502, 503, 429, 0}

NonDecreasing(seq) == \A j \in 1..(Len(seq) - 1) : seq[j] <= seq[j + 1]

\* C1: when the first k attempts (k < maxRetries) each fail with status 503
\* and attempt k+1 succeeds, fetchWithRetry returns that success value after
\* exactly k+1 attempts and exactly k delays, each delay >= the previous one.
C1_SuccessAfterServerErrors ==
    \A k \in 0..(Len(history) - 1) :
        ( /\ k < args.maxRetries
          /\ \A i \in 1..k : FailedWith(i, 503)
          /\ history[k + 1].kind = "return" )
        => /\ rpc = "returned"
           /\ rresult = Return(history[k + 1].value)
           /\ Len(history) = k + 1
           /\ requests = k + 1
           /\ Len(delays) = k
           /\ NonDecreasing(delays)

\* two 503 failures, then success, with maxRetries = 3: two delays
C1_Witness ==
    /\ args.maxRetries = 3
    /\ rpc = "returned"
    /\ Len(history) = 3
    /\ FailedWith(1, 503) /\ FailedWith(2, 503)
    /\ history[3].kind = "return"
    /\ Len(delays) = 2

\* C2: for every maxRetries >= 1, a first attempt failing with a 404 error
\* makes fetchWithRetry throw that same error after exactly one attempt,
\* with no delay and no retry.
C2_NotFoundThrownAtOnce ==
    ( /\ args.maxRetries >= 1
      /\ Len(history) >= 1
      /\ FailedWith(1, 404) )
    => /\ rpc = "thrown"
       /\ rresult = Throw(history[1].error)
       /\ Len(history) = 1
       /\ requests = 1
       /\ delays = <<>>

C2_Witness ==
    /\ args.maxRetries >= 2
    /\ rpc = "thrown"
    /\ Len(history) = 1
    /\ FailedWith(1, 404)
    /\ rresult.error.status = 404

\* C3: fetchWithRetry never makes more than maxRetries attempts, and when
\* every attempt fails with a retryable status (500, 502, 503, 429, network 0)
\* it makes exactly maxRetries attempts and throws the error of the last one.
C3_ExhaustedThrowsLastError ==
    /\ rpc # "none" => requests <= args.maxRetries
    /\ ( /\ RetryDone
         /\ args.maxRetries >= 1
         /\ \A i \in 1..Len(history) :
               history[i].kind = "throw" /\ history[i].error.status \in RetryableStatuses )
       => /\ rpc = "thrown"
          /\ Len(history) = args.maxRetries
          /\ requests = args.maxRetries
          /\ rresult = Throw(history[Len(history)].error)

\* two retryable failures with different errors: the second one is thrown
C3_Witness ==
    /\ args.maxRetries = 2
    /\ rpc = "thrown"
    /\ Len(history) = 2
    /\ FailedWith(1, 429) /\ FailedWith(2, 0)
    /\ rresult.error = history[2].error
    /\ rresult.error # history[1].error

\* C4: an attempt that fails with the Timeout error (status 408) while
\* attempts remain is followed by a backoff delay and another attempt.
C4_TimeoutIsRetried ==
    \A i \in 1..Len(history) :
        (FailedWith(i, 408) /\ i < args.maxRetries) => Len(delays) >= i

IsRateLimitedError(error) ==
    error.status = 403 /\ error.message[1] = RateLimitText

\* C5 (as claimed): an attempt that fails with the rate-limited 403 while
\* attempts remain is followed by another attempt.
C5_RateLimitedIsRetried ==
    \A i \in 1..Len(history) :
        ( /\ history[i].kind = "throw"
          /\ IsRateLimitedError(history[i].error)
          /\ i < args.maxRetries )
        => Len(delays) >= i

\* C5 (amended): an attempt that fails with the rate-limited 403 ends
\* fetchWithRetry: that error is thrown at once, with no delay after it and
\* no further attempt, also when attempts remain.
C5_RateLimitedThrownAtOnce ==
    \A i \in 1..Len(history) :
        ( /\ history[i].kind = "throw"
          /\ IsRateLimitedError(history[i].error) )
        => /\ rpc = "thrown"
           /\ rresult = Throw(history[i].error)
           /\ Len(history) = i
           /\ requests = i
           /\ Len(delays) = i - 1

C5_Witness ==
    /\ args.maxRetries = 2
    /\ rpc = "thrown"
    /\ Len(history) = 1
    /\ IsRateLimitedError(history[1].error)
    /\ requests = 1

\* a 4xx status other than 429
ClientStatus(status) == status >= 400 /\ status < 500 /\ status # 429

\* C6: the delay before retry n is min(1000 * 2^(n-1), 10000) ms; a delay
\* follows a failed attempt that is not a client error and precedes the next
\* attempt: none before the first attempt, none after the final attempt.
C6_BackoffDelays ==
    /\ \A n \in 1..Len(delays) :
          /\ delays[n] = (IF 1000 * 2^(n - 1) < 10000 THEN 1000 * 2^(n - 1) ELSE 10000)
          /\ n <= Len(history)
          /\ history[n].kind = "throw"
          /\ ~ClientStatus(history[n].error.status)
          /\ n < args.maxRetries
    /\ requests = 0 => delays = <<>>
    /\ rpc = "sleep" => Len(delays) = requests
    /\ rpc = "await" => Len(delays) = requests - 1
    /\ (RetryDone /\ history # <<>>) =>
          /\ Len(delays) = Len(history) - 1
          /\ requests = Len(history)

\* five retries: the fifth delay is capped
C6_Witness ==
    /\ RetryDone
    /\ Len(delays) = 5
    /\ delays[4] = 8000
    /\ delays[5] = 10000
    /\ requests = 6

----------------------------------------------------------------------------
(* Properties of fetchGitHub *)

UnparsableBody == [parsable |-> FALSE, message |-> NoMessage, errors |-> <<>>]

\* C7: a response with status 404 makes fetchGitHub fail with the error of
\* status 404 and the fixed not-found message, whatever the body.
C7_NotFoundWhateverBody ==
    (fpc = "thrown" /\ response.status = 404)
    => fresult = Throw(GitHubAPIError(<<NotFoundText>>, 404))

C7_Witness ==
    /\ fpc = "thrown"
    /\ response.status = 404
    /\ body = UnparsableBody
    /\ fresult.error.status = 404

IsResetTime(piece) == piece \notin {"soon", "Invalid Date"}

\* C8 (as claimed): status 403 with remaining "0" is rate-limited and its
\* message includes a reset time; with a nonzero remaining count it is
\* forbidden; the error status is 403 in both cases.
C8_RateLimitedHasResetTime ==
    (fpc = "thrown" /\ response.status = 403)
    => /\ fresult.error.status = 403
       /\ response.remaining = "0" =>
             /\ Len(fresult.error.message) = 3
             /\ fresult.error.message[1] = RateLimitText
             /\ IsResetTime(fresult.error.message[2])
       /\ response.remaining \notin {"0", NoHeader} =>
             fresult.error.message = <<ForbiddenText>>

\* C8 (amended): as claimed, except that the rate-limited message carries the
\* time of the reset header only when that header is a number; it carries
\* "soon" when the header is missing and "Invalid Date" when it is no number.
C8_RateLimitedOrForbidden ==
    (fpc = "thrown" /\ response.status = 403)
    => /\ fresult.error.status = 403
       /\ response.remaining = "0" =>
             /\ Len(fresult.error.message) = 3
             /\ fresult.error.message[1] = RateLimitText
             /\ response.reset = NoHeader => fresult.error.message[2] = "soon"
             /\ response.reset = "abc" => fresult.error.message[2] = "Invalid Date"
             /\ response.reset = "1760000000" => IsResetTime(fresult.error.message[2])
       /\ response.remaining \notin {"0", NoHeader} =>
             fresult.error.message = <<ForbiddenText>>

\* rate-limited, and no reset header
C8_Witness ==
    /\ fpc = "thrown"
    /\ response.status = 403
    /\ response.remaining = "0"
    /\ response.reset = NoHeader
    /\ fresult.error.message[1] = RateLimitText

\* C9: a call aborted by its timeout fails with status 408 and a failure of
\* the transport that is no HTTP response fails with status 0; no abort
\* yields 0 and no transport failure yields 408.
C9_TimeoutAndNetworkDistinct ==
    fpc = "thrown" =>
        /\ aborted => fresult.error.status = 408
        /\ caught \in (TransportErrors \cup BodyErrors) => fresult.error.status = 0
        /\ fresult.error.status = 0 => ~aborted
        /\ fresult.error.status = 408 => caught \notin (TransportErrors \cup BodyErrors)

C9_Witness ==
    /\ fpc = "thrown"
    /\ aborted
    /\ elapsed = args.timeout
    /\ fresult.error.status = 408

\* C10: a call that has not completed when the timeout elapses is aborted
\* and fails with the Timeout error, also while the body is being read.
C10_TimeoutCoversWholeCall ==
    /\ InFlight => elapsed <= args.timeout
    /\ (fpc \in {"returned", "thrown"} /\ elapsed > args.timeout)
          => fresult = Throw(GitHubAPIError(<<"Request timeout">>, 408))

\* C11 (as claimed): every response with a status in 200..299 makes
\* fetchGitHub return without error: null for 204, the parsed JSON body otherwise.
C11_SuccessStatusReturns ==
    (FetchDone /\ response.status \in 200..299)
    => /\ fresult.kind = "return"
       /\ response.status = 204 => fresult.value = Null
       /\ response.status # 204 => fresult.value \in JsonValues

\* C11 (amended): a response with a status in 200..299 makes fetchGitHub
\* return null for 204 and otherwise the parsed JSON body when the body
\* parses; when reading or parsing the body fails, the call fails with the
\* network error of status 0.
C11_SuccessStatusReturnsParsedBody ==
    (FetchDone /\ response.status \in 200..299)
    => IF response.status = 204
       THEN fresult = Return(Null)
       ELSE IF caught = NoError
            THEN fresult.kind = "return" /\ fresult.value \in JsonValues
            ELSE /\ caught \in BodyErrors
                 /\ fresult = Throw(GitHubAPIError(<<"Network error: ">> \o caught.message, 0))

\* a 200 whose body parsed has returned that body
C11_Witness ==
    /\ fpc = "returned"
    /\ response.status = 200
    /\ fresult.kind = "return"
    /\ fresult.value \in JsonValues

HasUpstreamMessage(b) == b.parsable /\ b.message \notin {NoMessage, ""}

\* C12 (as claimed): for every non-2xx response whose error body carries a
\* message, the error message is a fixed text of the class followed by that
\* upstream message.
C12_PrefixThenUpstreamMessage ==
    (fpc = "thrown" /\ response.status >= 300 /\ HasUpstreamMessage(body))
    => /\ Len(fresult.error.message) >= 2
       /\ fresult.error.message[1] # body.message
       /\ fresult.error.message[2] = body.message

\* C12 (amended): the upstream message is carried only for 400 (between a
\* fixed prefix and a fixed tail), for 422 (after a fixed prefix) and for the
\* other codes (alone, without prefix); for 401, 403, 404 and 500/502/503 the
\* message is the fixed text of the class and the upstream message is dropped.
C12_UpstreamMessageByClass ==
    (fpc = "thrown" /\ response.status >= 300 /\ HasUpstreamMessage(body))
    => LET m == fresult.error.message
           carried == \E i \in 1..Len(m) : m[i] = body.message
       IN CASE response.status = 400 -> m = <<BadRequestText, body.message, BadRequestTail>>
            [] response.status = 422 ->
                  /\ Len(m) >= 2 /\ m[1] = ValidationText /\ m[2] = body.message
                  /\ body.errors = <<>> => Len(m) = 2
            [] response.status = 401 -> m = <<InvalidTokenText>> /\ ~carried
            [] response.status = 403 ->
                  /\ m[1] \in {RateLimitText, ForbiddenText}
                  /\ ~carried
            [] response.status = 404 -> m = <<NotFoundText>> /\ ~carried
            [] response.status \in {500, 502, 503} -> m = <<ServerErrorText>> /\ ~carried
            [] OTHER -> m = <<body.message>>

\* a 400 whose body carries a message
C12_Witness ==
    /\ fpc = "thrown"
    /\ response.status = 400
    /\ HasUpstreamMessage(body)
    /\ fresult.error.message[2] = body.message

----------------------------------------------------------------------------
(* Properties of the auth helpers *)

WhitespaceOnly(cs) == \A i \in 1..Len(cs) : cs[i] = " "

\* C13: getOptionalToken returns undefined for every token that is absent,
\* empty or whitespace-only, and returns every other token unchanged, with
\* no trimming.
C13_OptionalTokenNormalised ==
    authOut.fn = "getOptionalToken"
    => /\ authOut.kind = "return"
       /\ IF ~token.present \/ WhitespaceOnly(token.chars)
          THEN authOut.value = Absent
          ELSE authOut.value = token

\* a token with surrounding blanks is returned with its blanks
C13_Witness ==
    /\ authOut.fn = "getOptionalToken"
    /\ token.present
    /\ Len(token.chars) >= 3
    /\ token.chars[1] = " "
    /\ token.chars[2] = "g"
    /\ token.chars[Len(token.chars)] = " "
    /\ authOut.value = token

\* C14 (as claimed): requireAuth returns the token unchanged when it is
\* present and non-empty, and otherwise fails with the authentication-required
\* error; it never returns an absent or empty value.
C14_RequireAuthNonEmpty ==
    authOut.fn = "requireAuth"
    => /\ IF token.present /\ token.chars # <<>>
          THEN authOut.kind = "return" /\ authOut.value = token
          ELSE authOut.kind = "throw" /\ authOut.message = <<AuthRequiredText>>
       /\ authOut.kind = "return" => (authOut.value.present /\ authOut.value.chars # <<>>)

\* C14 (amended): requireAuth returns the token unchanged when it is present
\* and not whitespace-only, and otherwise (absent, empty, whitespace-only)
\* fails with the authentication-required error; it never returns an absent,
\* empty or whitespace-only value.
C14_RequireAuthNonBlank ==
    authOut.fn = "requireAuth"
    => /\ IF token.present /\ ~WhitespaceOnly(token.chars)
          THEN authOut.kind = "return" /\ authOut.value = token
          ELSE authOut.kind = "throw" /\ authOut.message = <<AuthRequiredText>>
       /\ authOut.kind = "return" =>
             (authOut.value.present /\ ~WhitespaceOnly(authOut.value.chars))

\* a whitespace-only token is refused
C14_Witness ==
    /\ authOut.fn = "requireAuth"
    /\ token = Str(<<" ", " ">>)
    /\ authOut.kind = "throw"

\* C15 (as claimed): maskToken returns the first 7 characters followed by
\* "***", and the bare "***" only when the token is shorter than 7 characters.
C15_MaskShorterThanPrefix ==
    authOut.fn = "maskToken"
    => IF Len(token.chars) < 7
       THEN authOut.value.chars = <<"*", "*", "*">>
       ELSE authOut.value.chars = SubSeq(token.chars, 1, 7) \o <<"*", "*", "*">>

\* C15 (amended): maskToken returns the first 7 characters followed by "***"
\* when the token has more than 7 characters, and the bare "***" when it has
\* 7 characters or fewer; it outputs no character of the token beyond the
\* first 7.
C15_MaskUpToPrefix ==
    authOut.fn = "maskToken"
    => /\ IF Len(token.chars) <= 7
          THEN authOut.value.chars = <<"*", "*", "*">>
          ELSE authOut.value.chars = SubSeq(token.chars, 1, 7) \o <<"*", "*", "*">>
       /\ Len(authOut.value.chars) <= 10

\* a token of 8 characters is cut after the seventh
C15_Witness ==
    /\ authOut.fn = "maskToken"
    /\ Len(token.chars) = 8
    /\ token.chars[8] = "p"
    /\ authOut.value.chars = <<"g", "p", "g", "p", "g", "p", "g", "*", "*", "*">>

----------------------------------------------------------------------------
(* C16 *)

\* C16: when listIssues returns a result for an upstream page of N items of
\* which K carry the pull_request marker, total = N - K = the length of the
\* returned list, the returned issues are exactly the unmarked items in
\* upstream order, and each has is_pull_request = false.
C16_ListIssuesDropsPullRequests ==
    (call.op = "listIssues" /\ opc = "returned") =>
        LET page == upstream.page
            unmarked == {i \in 1..Len(page) : ~page[i].pull_request}
            marked == {i \in 1..Len(page) : page[i].pull_request}
            items == oresult.items
        IN /\ oresult.kind = "return"
           /\ oresult.total = Len(page) - Cardinality(marked)
           /\ oresult.total = Len(items)
           /\ {items[i].number : i \in 1..Len(items)} = {page[i].number : i \in unmarked}
           /\ \A i \in 1..Len(items) : \A j \in 1..Len(items) :
                  i < j => items[i].number < items[j].number
           /\ \A i \in 1..Len(items) : items[i].is_pull_request = FALSE

C16_Witness ==
    /\ call.op = "listIssues"
    /\ opc = "returned"
    /\ Len(upstream.page) = 3
    /\ upstream.page[2].pull_request
    /\ ~upstream.page[1].pull_request
    /\ ~upstream.page[3].pull_request
    /\ oresult.total = 2

----------------------------------------------------------------------------
(* C17 *)

\* C17: when search returns, the output total_count is the upstream
\* total_count and showing is the number of items returned in results,
\* whatever total_count is.
C17_ShowingCountsResults ==
    (call.op = "search" /\ opc = "returned") =>
        /\ oresult.kind = "return"
        /\ oresult.total_count = upstream.search.total_count
        /\ oresult.items = upstream.search.items
        /\ oresult.showing = Len(oresult.items)

C17_Witness ==
    /\ call.op = "search"
    /\ opc = "returned"
    /\ upstream.search.total_count = 1208
    /\ Len(upstream.search.items) = 5
    /\ oresult.total_count = 1208
    /\ oresult.showing = 5

----------------------------------------------------------------------------
(* C18 *)

C18_Extensions == {"branches", "release", "commits", "repos", "starred"}

\* the extensions a call names that the code looks at after extension e
C18_LaterRequested(e) ==
    CASE e = "branches" -> call.include \cap {"release", "commits"}
      [] e = "release" -> call.include \cap {"commits"}
      [] e = "repos" -> call.include \cap {"starred"}
      [] OTHER -> {}

\* C18: in getRepositoryInfo and getUserInfo a failed extension fetch never
\* makes the operation throw; the extension is resolved to null
\* (latest_release) or to an empty list (the others), a later requested
\* extension is still fetched, and the operation returns the base result.
C18_ExtensionFailureIsLocal ==
    \A k \in 2..Len(settled) :
        settled[k].kind = "throw" =>
            LET e == issued[k].endpoint IN
            /\ e \in C18_Extensions
            /\ opc # "thrown"
            /\ oresult.kind # "throw"
            /\ e = "release" => out.latest_release = "null"
            /\ e = "branches" => out.branches = "[]"
            /\ e = "commits" => out.recent_commits = "[]"
            /\ e = "repos" => out.repos = "[]"
            /\ e = "starred" => out.starred = "[]"
            /\ C18_LaterRequested(e) # {} =>
                  (Len(issued) > k /\ issued[k + 1].endpoint \in C18_LaterRequested(e))
            /\ opc = "returned" => (oresult.kind = "return" /\ oresult.fields = out)

C18_Witness ==
    /\ call.op = "getRepositoryInfo"
    /\ call.include = {"branches", "release", "commits"}
    /\ opc = "returned"
    /\ Len(settled) = 4
    /\ settled[2].kind = "throw"
    /\ settled[3].kind = "throw"
    /\ settled[4].kind = "return"
    /\ oresult.fields.branches = "[]"
    /\ oresult.fields.latest_release = "null"
    /\ oresult.fields.recent_commits = "data"

----------------------------------------------------------------------------
(* C19 *)

\* C19: in getRepositoryInfo and getUserInfo the first request is the base
\* request, an extension request is issued only after the base request has
\* returned, and after a failed base request no extension request is issued.
C19_BaseBeforeExtensions ==
    call.op \in {"getRepositoryInfo", "getUserInfo"} =>
        /\ Len(issued) >= 1 => issued[1].endpoint = "base"
        /\ \A k \in 2..Len(issued) : issued[k].endpoint # "base"
        /\ Len(issued) >= 2 => (Len(settled) >= 1 /\ settled[1].kind = "return")
        /\ (Len(settled) >= 1 /\ settled[1].kind = "throw") => Len(issued) = 1

C19_Witness ==
    /\ call.op = "getUserInfo"
    /\ call.include = {"repos", "starred"}
    /\ opc = "thrown"
    /\ Len(settled) = 1
    /\ settled[1].kind = "throw"
    /\ Len(issued) = 1

----------------------------------------------------------------------------
(* C20 *)

\* C20: in each of the four operations a failed base request makes the
\* operation throw an error whose message is the prefix of the operation
\* followed by the message of the client's error, and no result is returned.
C20_BaseFailureIsWrapped ==
    (Len(settled) >= 1 /\ settled[1].kind = "throw") =>
        /\ opc = "thrown"
        /\ oresult.kind = "throw"
        /\ oresult.message = <<OpPrefix(call.op)>> \o settled[1].error.message
        /\ oresult.message[1] \in {"GitHub search failed: ", "Failed to get repository info: ",
                                   "Failed to list issues: ", "Failed to get user info: "}

C20_Witness ==
    /\ call.op = "search"
    /\ opc = "thrown"
    /\ settled[1].kind = "throw"
    /\ settled[1].error.status = 404
    /\ oresult.message[1] = "GitHub search failed: "
    /\ Len(oresult.message) > 1

----------------------------------------------------------------------------
(* C21 *)

\* C21: listIssues called with a non-empty comma-separated labels string
\* sends the request with that labels filter and, when the request returns
\* a page, returns the filtered result and does not throw.
C21_LabelsStringReturnsResult ==
    ( /\ call.op = "listIssues"
      /\ call.labels \notin {NoLabels, ""}
      /\ Len(settled) >= 1
      /\ settled[1].kind = "return"
      /\ ~settled[1].isNull )
    => ( /\ issued[1].labels = call.labels
         /\ opc = "returned"
         /\ oresult.kind = "return"
         /\ oresult.total = Len(oresult.items) )

----------------------------------------------------------------------------
(* C22 *)

\* C22: an operation invoked with invalid input (search with a type outside
\* repositories / users / code) raises its error before any HTTP request:
\* no request is ever issued.
C22_InvalidInputIssuesNoRequest ==
    (call.op = "search" /\ call.type \notin {"repositories", "users", "code"}) =>
        (issued = <<>> /\ requests = 0)

----------------------------------------------------------------------------
(* C25 *)

\* the requests an operation makes when every one is reached: the base
\* request, then the requested extensions in the order of the code
C25_Expected ==
    <<"base">> \o
    SelectSeq(<<"branches", "release", "commits", "repos", "starred">>,
              LAMBDA e : /\ e \in call.include
                         /\ (call.op = "getRepositoryInfo" => e \in {"branches", "release", "commits"})
                         /\ (call.op = "getUserInfo" => e \in {"repos", "starred"}))

\* C25: an operation issues one client request for the base resource and
\* then one for each requested extension, none for the others, in the order
\* base, branches, release, commits (or repos, starred); each client request
\* is one HTTP request, so a failed request is never issued again.
C25_OneRequestEach ==
    call.op # "none" =>
        /\ Len(issued) <= Len(C25_Expected)
        /\ \A k \in 1..Len(issued) : issued[k].endpoint = C25_Expected[k]
        /\ requests = Len(issued)
        /\ Len(settled) <= Len(issued)
        /\ opc = "returned" => Len(issued) = Len(C25_Expected)
        /\ opc \in {"returned", "thrown"} => Len(settled) = Len(issued)

C25_Witness ==
    /\ call.op = "getRepositoryInfo"
    /\ call.include = {"branches", "commits"}
    /\ opc = "returned"
    /\ Len(issued) = 3
    /\ issued[2].endpoint = "branches"
    /\ issued[3].endpoint = "commits"
    /\ settled[2].kind = "throw"
    /\ settled[2].error.status = 408
    /\ requests = 3

----------------------------------------------------------------------------
(* C26 *)

\* C26: in a result of getRepositoryInfo or getUserInfo an extension that
\* was not requested is absent, and a requested one is present: with its
\* data, or with null (latest_release) or an empty list when its fetch
\* failed or gave nothing; absent differs from both.
C26_AbsentOrExplicit ==
    (call.op \in {"getRepositoryInfo", "getUserInfo"} /\ opc = "returned") =>
        LET f == oresult.fields
            requested(e) == e \in call.include
            failed(e) == \E k \in 2..Len(settled) : issued[k].endpoint = e /\ settled[k].kind = "throw"
        IN /\ requested("branches") <=> f.branches # "absent"
           /\ requested("release") <=> f.latest_release # "absent"
           /\ requested("commits") <=> f.recent_commits # "absent"
           /\ requested("repos") <=> f.repos # "absent"
           /\ requested("starred") <=> f.starred # "absent"
           /\ failed("branches") => f.branches = "[]"
           /\ failed("release") => f.latest_release = "null"
           /\ failed("commits") => f.recent_commits = "[]"
           /\ failed("repos") => f.repos = "[]"
           /\ failed("starred") => f.starred = "[]"
           /\ f.latest_release \in {"absent", "null", "data"}
           /\ \A v \in {f.branches, f.recent_commits, f.repos, f.starred} : v \in {"absent", "[]", "data"}

C26_Witness ==
    /\ call.op = "getRepositoryInfo"
    /\ call.include = {"release", "commits"}
    /\ opc = "returned"
    /\ settled[2].kind = "throw"
    /\ settled[3].kind = "throw"
    /\ oresult.fields.branches = "absent"
    /\ oresult.fields.latest_release = "null"
    /\ oresult.fields.recent_commits = "[]"

----------------------------------------------------------------------------
(* C28 *)

C28_Success(status) == status >= 200 /\ status <= 299

\* a call that has ended has one outcome: a value, or a GitHubAPIError whose
\* status is 408 for an abort, the status of the non-2xx response for a
\* classified response, 0 for anything else
C28_OneOutcome ==
    /\ fpc = "returned" => (fresult.kind = "return" /\ fresult.error = Undefined)
    /\ fpc = "thrown" =>
          /\ fresult.kind = "throw"
          /\ fresult.error.name = "GitHubAPIError"
          /\ caught.name = "AbortError" => (aborted /\ fresult.error.status = 408)
          /\ caught.name = "GitHubAPIError" =>
                (fresult.error.status = response.status /\ ~C28_Success(response.status))
          /\ caught.name \notin {"AbortError", "GitHubAPIError"} =>
                (fresult.error.status = 0 /\ fresult.error.message = <<"Network error: ">> \o caught.message)
          /\ C28_Success(response.status) =>
                (fresult.error.status = 0 /\ fresult.error.message[1] = "Network error: ")

\* a step issues an HTTP request exactly when a call starts, and no step of
\* a call under way issues another
C28_OneRequestStep ==
    /\ requests' \in {requests, requests + 1}
    /\ requests' = requests + 1 <=> (fpc \notin {"fetching", "handleAPIError", "readingBody"} /\ fpc' = "fetching")

\* C28: each fetchGitHub call performs exactly one HTTP request and ends in
\* exactly one outcome: a returned value, or a thrown GitHubAPIError with
\* status 408 (abort), the non-2xx status of the response, or 0 (any other
\* exception, among them a 2xx body that is not valid JSON).
C28_OneRequestOneOutcome == []C28_OneOutcome /\ [][C28_OneRequestStep]_vars

C28_Witness ==
    /\ fpc = "thrown"
    /\ response.status = 200
    /\ caught.name = "SyntaxError"
    /\ fresult.error = GitHubAPIError(<<"Network error: ", "Unexpected token">>, 0)
    /\ requests = 1

----------------------------------------------------------------------------
(* C29 *)

\* C29: fetchWithRetry called with maxRetries <= 0 makes no attempt (no
\* HTTP request, no delay) and throws the undefined value of lastError.
C29_NoAttemptThrowsUndefined ==
    (args.maxRetries <= 0 /\ rpc # "none") =>
        /\ requests = 0
        /\ delays = <<>>
        /\ history = <<>>
        /\ rpc \in {"loop", "thrown"}
        /\ rpc = "thrown" => rresult = Throw(Undefined)

C29_Witness ==
    /\ args.maxRetries = MinBackoffRetries
    /\ args.maxRetries <= 0
    /\ rpc = "thrown"
    /\ rresult.kind = "throw"
    /\ rresult.error = Undefined
    /\ requests = 0

----------------------------------------------------------------------------
(* C23 *)

\* C23: the CLI run with --help or help in any argument position, the
\* first included, or with no command, prints the usage text and exits
\* with code 0 without invoking a domain operation.
C23_HelpPrintsUsage ==
    ( /\ cpc \notin {"idle", "start"}
      /\ (argv = <<>> \/ \E i \in 1..Len(argv) : argv[i] \in {"--help", "help"}) )
    => ( /\ cpc = "exited"
         /\ exitCode = 0
         /\ printed = {"usage"}
         /\ invoked = "none" )

----------------------------------------------------------------------------
(* C24 *)

\* C24: no error escapes main uncaught; and a run that gets past the help
\* test and whose command is unknown, or whose domain operation throws,
\* exits with code 1 after printing an error message, without the success
\* line, and in the first case without invoking a domain operation.
C24_FailuresExitOne ==
    /\ cpc # "crashed"
    /\ ( /\ cpc \in {"done", "exited"}
         /\ "banner" \in printed
         /\ parsed.command \notin {"search", "repo-info", "issues", "user-info"} )
       => ( /\ exitCode = 1
            /\ "unknown command" \in printed
            /\ "success" \notin printed
            /\ invoked = "none" )
    /\ ( /\ cpc \in {"done", "exited"}
         /\ invoked # "none"
         /\ "result" \notin printed )
       => ( /\ exitCode = 1
            /\ "command failed" \in printed
            /\ "success" \notin printed )

----------------------------------------------------------------------------
(* C27 *)

C27_Header(name) == {h \in hreq.headers : h.name = name}

\* C27: the request fetchGitHub builds always carries the fixed Accept,
\* API-version and User-Agent headers; it carries Authorization exactly
\* when a (non-empty) token was given, and Content-Type exactly when the
\* request has a body and its method is not GET.
C27_RequestHeaders ==
    hreq.built =>
        /\ C27_Header("Accept") = {[name |-> "Accept", value |-> <<"application/vnd.github+json">>]}
        /\ C27_Header("X-GitHub-Api-Version") =
              {[name |-> "X-GitHub-Api-Version", value |-> <<"2022-11-28">>]}
        /\ C27_Header("User-Agent") = {[name |-> "User-Agent", value |-> <<"Deus-Ex-Machina-Agent/1.0">>]}
        /\ C27_Header("Authorization") # {} <=> (hcall.token.present /\ hcall.token.chars # <<>>)
        /\ \A h \in C27_Header("Authorization") : h.value = <<"Bearer ">> \o hcall.token.chars
        /\ C27_Header("Content-Type") # {} <=>
              (hreq.hasBody /\ hcall.method \notin {"GET", "<undefined>"})
        /\ hreq.hasBody <=> hcall.body \notin {"undefined", "''", "0"}
        /\ \A h \in hreq.headers :
              h.name \in {"Accept", "X-GitHub-Api-Version", "User-Agent", "Authorization", "Content-Type"}

C27_Witness ==
    /\ hreq.built
    /\ hcall.method = "GET"
    /\ hcall.body = "{...}"
    /\ hcall.token = Str(<<"g", "p">>)
    /\ Cardinality(hreq.headers) = 4

----------------------------------------------------------------------------
(* C30 *)

\* the arguments after the command that are neither flags nor the word
\* right after a flag
C30_Expected ==
    LET idx == {i \in 2..Len(argv) : argv[i] \notin FlagWords /\ argv[i - 1] \notin FlagWords}
        pick[i \in 1..(Len(argv) + 1)] ==
            IF i > Len(argv) THEN <<>>
            ELSE IF i \in idx THEN <<argv[i]>> \o pick[i + 1]
            ELSE pick[i + 1]
    IN pick[1]

\* C30: parseArgs never appends to the positional list a value consumed by a
\* --flag value option: the list is exactly the non-flag arguments that are
\* not option values, also when a value is comma-separated and split.
C30_OptionValuesNotPositional ==
    ( /\ cpc \notin {"idle", "start"}
      /\ Len(argv) >= 1
      /\ argv[1] \notin FlagWords
      /\ \A i \in 1..Len(argv) : argv[i] # "--_args" )
    => ( /\ ~parsed.threw
         /\ parsed.params["_args"].kind \in {"undefined", "list"}
         /\ parsed.params["_args"].items = C30_Expected )

====
